---- MODULE Spec2Model ----
(***************************************************************************)
(* SnapSort: the identity-resolution pipeline.                             *)
(*   controller.py  Controller   bounded-concurrency ingestion scheduler   *)
(*   indexer.py     FaissIndex   flat L2 index minting identity ids        *)
(*   db.py          Database     images / faces / occurrences store        *)
(*                                                                         *)
(* Four specifications share the variables:                                *)
(*   Spec       the controller with its two threads (the GUI thread that   *)
(*              calls scan_folder and merge_face_ids, the pool's result    *)
(*              thread that runs the callbacks), the index and the store;  *)
(*   SpecFaults Spec with store writes that raise, and with the death of   *)
(*              the process (torn index file included) and its restart;    *)
(*   SpecIndex  FaissIndex.find_or_add over the index states it can build; *)
(*   SpecStore  the Database operations, statement by statement, with      *)
(*              process crashes.                                           *)
(***************************************************************************)
EXTENDS Integers, Sequences, FiniteSets, Bags

VARIABLES
    image_queue,    \* Controller.image_queue: list of paths
    pending_tasks,  \* Controller.pending_tasks
    pool,           \* tasks given to Pool.apply_async whose callback has not run: path -> count
    index,          \* FaissIndex.index: the rows of the flat index, row ordinal = position - 1
    index_file,     \* the file faces.index as last written by FaissIndex.save
    db,             \* the store as the sqlite connection sees it (uncommitted writes included)
    disk,           \* the store as committed to faces.db
    image_to_faces, \* Controller.image_to_faces: path -> face ids of its last result
    th,             \* the two threads that run Controller code: th.main is the GUI thread
                    \* (scan_folder, merge_face_ids), th.cb the pool's result-handler
                    \* thread (the callbacks); each a record of pc and locals
    hist,           \* history of the scheduler, read by the properties only
    scans,          \* number of scan_folder calls made so far
    files,          \* the folder: path -> detections process_image returns for it
    txn,            \* SpecStore: the Database call in progress
    last,           \* history: the last completed call and what it returned
    returned        \* history: ids returned by find_or_add calls before the last one

vars == << image_queue, pending_tasks, pool, index, index_file, db, disk,
           image_to_faces, th, hist, scans, files, txn, last, returned >>

-----------------------------------------------------------------------------
(* Bounds of the model.                                                    *)

MaxCoord == 2      \* embeddings are points of the grid (0..MaxCoord) x (0..MaxCoord)
MaxVectors == 2    \* find_or_add is not called when it would grow the index past this
NumPaths == 2      \* image paths 1..NumPaths
MaxScans == 2      \* scan_folder calls per behaviour
MaxRows == 2       \* SpecStore: occurrence rows
MaxFaceId == 1     \* SpecStore: identity ids 0..MaxFaceId
num_workers == 2   \* Controller(num_workers): the configured concurrency (main.py passes 4)
MaxRestarts == 1   \* SpecFaults: process deaths followed by a new start

(* Program constants.                                                      *)

\* find_or_add(self, emb, threshold=0.24): squared L2 distance. The grid unit
\* is 0.2, so squared distances are counted in units of 0.04 and 0.24 is 6.
Threshold == 6

Paths == 1..NumPaths
Embeddings == (0..MaxCoord) \X (0..MaxCoord)
None == [op |-> "none"]

-----------------------------------------------------------------------------
(* indexer.py: FaissIndex                                                  *)

\* IndexFlatL2 metric: squared Euclidean distance.
Dist(a, b) == (a[1] - b[1]) * (a[1] - b[1]) + (a[2] - b[2]) * (a[2] - b[2])

\* D, I = self.index.search(vec, 1): the nearest row, the lowest ordinal among
\* equidistant rows; I is the 0-based row ordinal.
Search(idx, vec) ==
    LET d == [i \in 1..Len(idx) |-> Dist(idx[i], vec)]
        best == CHOOSE i \in 1..Len(idx) :
                    \A j \in 1..Len(idx) : d[i] < d[j] \/ (d[i] = d[j] /\ i <= j)
    IN  [D |-> d[best], I |-> best - 1]

\* Mutant: new_id taken after the add instead of before it.
find_or_add_new_id_after_add(idx, emb) ==
    LET hit == IF Len(idx) > 0 THEN Search(idx, emb) ELSE [D |-> Threshold, I |-> -1]
    IN  IF hit.D < Threshold
        THEN [id |-> hit.I, index |-> idx]
        ELSE [id |-> Len(idx) + 1, index |-> Append(idx, emb)]

\* Mutant: the comparison with the threshold inverted.
find_or_add_inverted_threshold(idx, emb) ==
    LET hit == IF Len(idx) > 0 THEN Search(idx, emb) ELSE [D |-> Threshold, I |-> -1]
    IN  IF hit.D > Threshold
        THEN [id |-> hit.I, index |-> idx]
        ELSE [id |-> Len(idx), index |-> Append(idx, emb)]

\* Mutant: a neighbour at distance 0 is not taken as a match.
find_or_add_excludes_exact(idx, emb) ==
    LET hit == IF Len(idx) > 0 THEN Search(idx, emb) ELSE [D |-> Threshold, I |-> -1]
    IN  IF 0 < hit.D /\ hit.D < Threshold
        THEN [id |-> hit.I, index |-> idx]
        ELSE [id |-> Len(idx), index |-> Append(idx, emb)]

\* Mutant: index.add runs on every call, whether a neighbour matched or not.
find_or_add_always_adds(idx, emb) ==
    LET hit == IF Len(idx) > 0 THEN Search(idx, emb) ELSE [D |-> Threshold, I |-> -1]
    IN  IF hit.D < Threshold
        THEN [id |-> hit.I, index |-> Append(idx, emb)]
        ELSE [id |-> Len(idx), index |-> Append(idx, emb)]

\* FaissIndex.find_or_add: the id returned and the index afterwards. With an
\* empty index the search is skipped (ntotal > 0 fails) and the vector is added.
find_or_add(idx, emb) ==
    LET hit == IF Len(idx) > 0 THEN Search(idx, emb) ELSE [D |-> Threshold, I |-> -1]
    IN  IF hit.D < Threshold
        THEN [id |-> hit.I, index |-> idx]
        ELSE [id |-> Len(idx), index |-> Append(idx, emb)]

-----------------------------------------------------------------------------
(* db.py: Database                                                         *)
(*                                                                         *)
(* A store is a record of the three tables:                                *)
(*   images       the paths in rowid order; images.id is the position      *)
(*                (INTEGER PRIMARY KEY, rows are never deleted);           *)
(*   faces        the set of faces.id (last_seen is a timestamp no query   *)
(*                reads and is left out);                                  *)
(*   occurrences  the bag of rows <<image_id, face_id>> (the table has no  *)
(*                key; the box columns are payload and are left out, so    *)
(*                two detections of one identity in one image are two      *)
(*                copies of a row).                                        *)

FaceIds == 0..MaxFaceId
Range(f) == {f[i] : i \in DOMAIN f}

RECURSIVE SumCounts(_, _)
SumCounts(occ, S) ==
    IF S = {} THEN 0
    ELSE LET r == CHOOSE x \in S : TRUE
         IN  occ[r] + SumCounts(occ, S \ {r})

\* SELECT id FROM images WHERE path = ?  (0 when there is no row)
ImageId(s, path) ==
    IF path \in Range(s.images)
    THEN CHOOSE i \in 1..Len(s.images) : s.images[i] = path
    ELSE 0

\* occurrences JOIN images ON occurrences.image_id = images.id
Joined(s) == {r \in DOMAIN s.occurrences : r[1] \in 1..Len(s.images)}

\* Mutant: plain INSERTs, a row added to images whether the path has one or not.
InsertStmt_always_inserts_image(k, s, path, fid) ==
    CASE k = 1 -> [s EXCEPT !.images = Append(@, path)]
      [] k = 2 -> [s EXCEPT !.faces = @ \cup {fid}]
      [] k = 3 -> [s EXCEPT !.occurrences = @ (+) SetToBag({<<Len(s.images), fid>>})]

\* Statement k of insert_occurrence: 1 INSERT OR IGNORE INTO images, 2 INSERT
\* OR IGNORE INTO faces and UPDATE last_seen, 3 INSERT INTO occurrences with
\* the img_id selected after statement 1.
InsertStmt(k, s, path, fid) ==
    CASE k = 1 -> [s EXCEPT !.images = IF path \in Range(@) THEN @ ELSE Append(@, path)]
      [] k = 2 -> [s EXCEPT !.faces = @ \cup {fid}]
      [] k = 3 -> [s EXCEPT !.occurrences = @ (+) SetToBag({<<ImageId(s, path), fid>>})]

\* Mutant: the connection in autocommit mode, every statement committed at once.
CommitsAfter_autocommit(k) == TRUE

\* Step 4 of insert_occurrence is self.conn.commit(): statements 1 to 3 form
\* one transaction, made durable by step 4 alone.
CommitsAfter(k) == k = 4

\* insert_occurrence, whole.
insert_occurrence(s, path, fid) ==
    InsertStmt(3, InsertStmt(2, InsertStmt(1, s, path, fid), path, fid), path, fid)

\* Mutant: the UPDATE matches no row, so the merged-away ids stay on the
\* occurrences; the faces rows are still deleted.
MergeStmt_no_redirect(k, s, primary_id, other_ids) ==
    CASE k = 1 -> s
      [] k = 2 -> [s EXCEPT !.faces = @ \ other_ids]

\* Statement k of merge_faces: 1 UPDATE occurrences SET face_id = primary WHERE
\* face_id IN others, 2 DELETE FROM faces WHERE id IN others.
MergeStmt(k, s, primary_id, other_ids) ==
    CASE k = 1 ->
            LET red(r) == IF r[2] \in other_ids THEN <<r[1], primary_id>> ELSE r
                occ == s.occurrences
            IN  [s EXCEPT !.occurrences =
                    [t \in {red(r) : r \in DOMAIN occ} |->
                        SumCounts(occ, {r \in DOMAIN occ : red(r) = t})]]
      [] k = 2 -> [s EXCEPT !.faces = @ \ other_ids]

\* merge_faces, whole ("if not other_ids: return").
merge_faces(s, primary_id, other_ids) ==
    IF other_ids = {} THEN s
    ELSE MergeStmt(2, MergeStmt(1, s, primary_id, other_ids), primary_id, other_ids)

\* n copies of x as a list.
RECURSIVE Copies(_, _)
Copies(x, n) == IF n = 0 THEN << >> ELSE <<x>> \o Copies(x, n - 1)

\* The face ids of the rows of bag occ whose ids are in S, each as often as it
\* has rows, by ascending id.
RECURSIVE FaceIdList(_, _)
FaceIdList(occ, S) ==
    IF S = {} THEN << >>
    ELSE LET r == CHOOSE x \in S : \A y \in S : x[2] <= y[2]
         IN  Copies(r[2], occ[r]) \o FaceIdList(occ, S \ {r})

\* get_faces_in_image: [] for an empty path (0 here) or a path without images
\* row, else the face_id of every occurrences row of the image. The store
\* model keeps no row order: the list is given by ascending id.
get_faces_in_image(s, image_path) ==
    IF image_path = 0 \/ image_path \notin Range(s.images) THEN << >>
    ELSE FaceIdList(s.occurrences,
                    {r \in DOMAIN s.occurrences : r[1] = ImageId(s, image_path)})

\* get_images_with_face: SELECT DISTINCT images.path ... WHERE face_id = ?,
\* the paths in images.id order.
get_images_with_face(s, face_id) ==
    SelectSeq(s.images, LAMBDA p : <<ImageId(s, p), face_id>> \in Joined(s))

\* Mutant: HAVING COUNT(face_id) instead of COUNT(DISTINCT face_id).
get_images_with_faces_count_rows(s, face_ids) ==
    IF Len(face_ids) = 0 THEN << >>
    ELSE SelectSeq(s.images, LAMBDA p :
            LET g == {r \in Joined(s) : r[1] = ImageId(s, p) /\ r[2] \in Range(face_ids)}
            IN  g # {} /\ SumCounts(s.occurrences, g) = Len(face_ids))

\* Mutant: the HAVING clause dropped, an image with any of the ids is returned.
get_images_with_faces_any_id(s, face_ids) ==
    IF Len(face_ids) = 0 THEN << >>
    ELSE SelectSeq(s.images, LAMBDA p :
            LET g == {r \in Joined(s) : r[1] = ImageId(s, p) /\ r[2] \in Range(face_ids)}
            IN  g # {})

\* get_images_with_faces: WHERE face_id IN (face_ids) GROUP BY images.id
\* HAVING COUNT(DISTINCT face_id) = len(face_ids); one row per group, the
\* groups in images.id order. face_ids is a list.
get_images_with_faces(s, face_ids) ==
    IF Len(face_ids) = 0 THEN << >>
    ELSE SelectSeq(s.images, LAMBDA p :
            LET g == {r \in Joined(s) : r[1] = ImageId(s, p) /\ r[2] \in Range(face_ids)}
            IN  g # {} /\ Cardinality({r[2] : r \in g}) = Len(face_ids))

\* get_processed_images: the set of paths with at least one occurrence.
get_processed_images(s) == {s.images[r[1]] : r \in Joined(s)}

\* Occurrence rows whose image_id has no images row or whose face_id has no
\* faces row.
Orphans(s) ==
    {r \in DOMAIN s.occurrences : r[1] \notin 1..Len(s.images) \/ r[2] \notin s.faces}

-----------------------------------------------------------------------------
(* SpecIndex: find_or_add called with any embedding, from the empty index. *)

\* image_to_faces has no key for the path (a list no result can give).
Unset == <<-1>>
EmptyStore == [images |-> << >>, faces |-> {}, occurrences |-> EmptyBag]
NoCall == [pc |-> "idle"]
\* A thread outside every Controller method, its locals cleared. stale and gen
\* are history: whether the path held was applied before its scan began, and
\* the number of the scan whose queue it was popped from.
IdleThread ==
    [pc |-> "idle", kind |-> "none", all_image_paths |-> << >>, new_images |-> << >>,
     path |-> 0, tmp |-> 0, img |-> 0, face |-> 0, stale |-> {}, gen |-> 0]
NoHistory == [applied |-> {}, stale |-> {}, redispatched |-> {}, restarts |-> 0,
              merged |-> {}]

InitIndex ==
    /\ image_queue = << >>
    /\ pending_tasks = 0
    /\ pool = [p \in Paths |-> 0]
    /\ index = << >>
    /\ index_file = << >>
    /\ db = EmptyStore
    /\ disk = EmptyStore
    /\ image_to_faces = [p \in Paths |-> Unset]
    /\ th = [main |-> IdleThread, cb |-> IdleThread]
    /\ hist = NoHistory
    /\ scans = 0
    /\ files = [p \in Paths |-> << >>]
    /\ txn = NoCall
    /\ last = None
    /\ returned = {}

\* One call of find_or_add. The history keeps the call, the index before it,
\* and of the call before it the id returned, whether its embedding was
\* within the threshold of this one and whether it was this one.
FindOrAddCall(e) ==
    LET r == find_or_add(index, e)
    IN  /\ Len(r.index) <= MaxVectors
        /\ index' = r.index
        /\ last' = [op |-> "find_or_add", emb |-> e, ret |-> r.id, before |-> index,
                    prev_ret |-> IF last.op = "find_or_add" THEN last.ret ELSE -1,
                    near_prev |-> last.op = "find_or_add" /\ Dist(last.emb, e) < Threshold,
                    same_prev |-> last.op = "find_or_add" /\ last.emb = e]
        /\ returned' = IF last.op = "find_or_add" THEN returned \cup {last.ret}
                                                  ELSE returned
        /\ UNCHANGED << image_queue, pending_tasks, pool, index_file, db, disk,
                        image_to_faces, th, hist, scans, files, txn >>

NextIndex == \E e \in Embeddings : FindOrAddCall(e)

SpecIndex == InitIndex /\ [][NextIndex]_vars

\* Row r (0-based) of idx is within the threshold of e and strictly nearer to
\* e than every other row.
StrictNearest(idx, r, e) ==
    /\ r + 1 \in 1..Len(idx)
    /\ Dist(idx[r + 1], e) < Threshold
    /\ \A j \in 1..Len(idx) : j # r + 1 => Dist(idx[j], e) > Dist(idx[r + 1], e)

\* C3 as stated: whenever find_or_add(e2) directly follows find_or_add(e1) and
\* the squared distance of e1 and e2 is below the threshold, both calls return
\* the same id.
C3_SameIdWithinThreshold ==
    (last.op = "find_or_add" /\ last.near_prev) => last.ret = last.prev_ret

\* C3 amended: whenever find_or_add(e2) directly follows find_or_add(e1), the
\* squared distance of e1 and e2 is below the threshold, and the row whose id
\* find_or_add(e1) returned is within the threshold of e2 and strictly nearer
\* to e2 than every other row, both calls return the same id.
C3_SameIdWhenNearest ==
    (/\ last.op = "find_or_add"
     /\ last.near_prev
     /\ StrictNearest(last.before, last.prev_ret, last.emb))
        => last.ret = last.prev_ret

\* C3 witness: e1 was added as a new row next to an older row, e2 differs from
\* e1, is within the threshold of it, and resolved to the id of e1.
C3_Witness ==
    /\ last.op = "find_or_add"
    /\ last.near_prev
    /\ Len(last.before) = 2
    /\ last.prev_ret = 1
    /\ last.emb # last.before[2]
    /\ StrictNearest(last.before, last.prev_ret, last.emb)
    /\ last.ret = 1

\* Every row of idx is at squared distance >= Threshold from e.
FarFromAll(idx, e) == \A i \in 1..Len(idx) : Dist(idx[i], e) >= Threshold

\* C4: when the embedding is at distance >= threshold from every stored row
\* (the empty index included), find_or_add appends it as the last row and
\* returns the row count before the call, an id no earlier call returned.
C4_FarEmbeddingMintsNewId ==
    (last.op = "find_or_add" /\ FarFromAll(last.before, last.emb))
        => /\ index = Append(last.before, last.emb)
           /\ last.ret = Len(last.before)
           /\ last.ret \notin returned

\* C4 witness: a second identity minted in a non-empty index after id 0 was
\* returned by earlier calls.
C4_Witness ==
    /\ last.op = "find_or_add"
    /\ Len(last.before) = 1
    /\ FarFromAll(last.before, last.emb)
    /\ 0 \in returned
    /\ last.ret = 1

-----------------------------------------------------------------------------
(* SpecStore: the Database calls one at a time (every method body runs     *)
(* under self.lock), statement by statement; the process may crash between *)
(* any two statements of a call, and the store is then what was committed. *)

IdLists == {<< >>} \cup {<<a>> : a \in FaceIds} \cup {<<a, b>> : a, b \in FaceIds}

InitStore == InitIndex

\* Mutant: the method bodies without "with self.lock".
LockFree_unlocked == TRUE

\* "with self.lock:" of every Database method: the one lock of the store can
\* be taken when no call is inside a method body.
LockFree == txn.pc = "idle"

BeginInsertOccurrence(path, fid) ==
    /\ LockFree
    /\ BagCardinality(db.occurrences) < MaxRows
    /\ txn' = [pc |-> "insert_occurrence", k |-> 1, path |-> path, fid |-> fid,
               before |-> db, committed |-> disk]
    /\ last' = None
    /\ UNCHANGED << image_queue, pending_tasks, pool, index, index_file, db, disk,
                    image_to_faces, th, hist, scans, files, returned >>

\* The next step of the insert_occurrence in progress: statement 1, 2 or 3,
\* or (step 4) conn.commit() and the return.
Statement ==
    /\ txn.pc = "insert_occurrence"
    /\ LET after == IF txn.k <= 3 THEN InsertStmt(txn.k, db, txn.path, txn.fid) ELSE db
       IN  /\ db' = after
           /\ disk' = IF CommitsAfter(txn.k) THEN after ELSE disk
           /\ IF txn.k = 4
              THEN /\ txn' = NoCall
                   /\ last' = [op |-> "insert_occurrence", path |-> txn.path,
                               fid |-> txn.fid, before |-> txn.before]
              ELSE /\ txn' = [txn EXCEPT !.k = @ + 1]
                   /\ last' = last
    /\ UNCHANGED << image_queue, pending_tasks, pool, index, index_file,
                    image_to_faces, th, hist, scans, files, returned >>

\* The process dies inside insert_occurrence; after the restart the connection
\* sees what was committed.
Crash ==
    /\ txn.pc = "insert_occurrence"
    /\ db' = disk
    /\ txn' = NoCall
    /\ last' = [op |-> "crash", during |-> txn.pc, k |-> txn.k, lost |-> db,
                committed |-> txn.committed]
    /\ UNCHANGED << image_queue, pending_tasks, pool, index, index_file, disk,
                    image_to_faces, th, hist, scans, files, returned >>

\* merge_faces(primary_id, other_ids): the UPDATE, the DELETE and the commit
\* under self.lock.
MergeFaces(primary_id, other_ids) ==
    /\ LockFree
    /\ db' = merge_faces(db, primary_id, other_ids)
    /\ disk' = IF other_ids = {} THEN disk ELSE db'
    /\ last' = [op |-> "merge_faces", primary_id |-> primary_id,
                other_ids |-> other_ids, before |-> db]
    /\ UNCHANGED << image_queue, pending_tasks, pool, index, index_file,
                    image_to_faces, th, hist, scans, files, txn, returned >>

GetFacesInImage(image_path) ==
    /\ LockFree
    /\ last' = [op |-> "get_faces_in_image", arg |-> image_path,
                ret |-> get_faces_in_image(db, image_path)]
    /\ UNCHANGED << image_queue, pending_tasks, pool, index, index_file, db, disk,
                    image_to_faces, th, hist, scans, files, txn, returned >>

GetImagesWithFace(face_id) ==
    /\ LockFree
    /\ last' = [op |-> "get_images_with_face", arg |-> face_id,
                ret |-> get_images_with_face(db, face_id)]
    /\ UNCHANGED << image_queue, pending_tasks, pool, index, index_file, db, disk,
                    image_to_faces, th, hist, scans, files, txn, returned >>

GetImagesWithFaces(face_ids) ==
    /\ LockFree
    /\ last' = [op |-> "get_images_with_faces", arg |-> face_ids,
                ret |-> get_images_with_faces(db, face_ids)]
    /\ UNCHANGED << image_queue, pending_tasks, pool, index, index_file, db, disk,
                    image_to_faces, th, hist, scans, files, txn, returned >>

\* Controller.request_images_with_all_faces(image_path): the list emitted.
\* The ids of the image, as get_faces_in_image lists them, are handed to
\* get_images_with_faces; with no id the empty list is emitted.
request_images_with_all_faces(s, image_path) ==
    LET face_ids == get_faces_in_image(s, image_path)
    IN  IF face_ids = << >> THEN << >> ELSE get_images_with_faces(s, face_ids)

RequestImagesWithAllFaces(image_path) ==
    /\ LockFree
    /\ last' = [op |-> "request_images_with_all_faces", arg |-> image_path,
                ret |-> request_images_with_all_faces(db, image_path)]
    /\ UNCHANGED << image_queue, pending_tasks, pool, index, index_file, db, disk,
                    image_to_faces, th, hist, scans, files, txn, returned >>

NextStore ==
    \/ \E path \in Paths, fid \in FaceIds : BeginInsertOccurrence(path, fid)
    \/ Statement
    \/ Crash
    \/ \E primary_id \in FaceIds, other_ids \in SUBSET FaceIds :
            MergeFaces(primary_id, other_ids)
    \/ \E image_path \in {0} \cup Paths : GetFacesInImage(image_path)
    \/ \E face_id \in FaceIds : GetImagesWithFace(face_id)
    \/ \E face_ids \in IdLists : GetImagesWithFaces(face_ids)
    \/ \E image_path \in Paths : RequestImagesWithAllFaces(image_path)

SpecStore == InitStore /\ [][NextStore]_vars

\* Path p has at least one occurrence row of identity f in store s.
HasOccurrence(s, p, f) ==
    /\ p \in Range(s.images)
    /\ \E r \in DOMAIN s.occurrences : r[1] = ImageId(s, p) /\ r[2] = f

\* Union of what get_images_with_face returns for the ids of S, as a set.
ImagesWithAny(s, S) == UNION {Range(get_images_with_face(s, f)) : f \in S}

\* C5 as stated: after merge_faces(A, others) with others non-empty,
\* get_images_with_face(b) is empty for every b in others and
\* get_images_with_face(A) is the union of what it returned for A and for
\* every id of others before the merge.
C5_MergeUnion ==
    (last.op = "merge_faces" /\ last.other_ids # {})
        => /\ \A b \in last.other_ids : get_images_with_face(db, b) = << >>
           /\ Range(get_images_with_face(db, last.primary_id))
                = ImagesWithAny(last.before, {last.primary_id} \cup last.other_ids)

\* C5 amended: the same, for merge_faces(A, others) with others non-empty and
\* A not in others.
C5_MergeUnionPrimaryNotMerged ==
    (/\ last.op = "merge_faces"
     /\ last.other_ids # {}
     /\ last.primary_id \notin last.other_ids)
        => /\ \A b \in last.other_ids : get_images_with_face(db, b) = << >>
           /\ Range(get_images_with_face(db, last.primary_id))
                = ImagesWithAny(last.before, {last.primary_id} \cup last.other_ids)

\* C5 witness: a merge into an id that is not merged away, every id involved
\* with images before the merge, the primary ending with two images.
C5_Witness ==
    /\ last.op = "merge_faces"
    /\ last.other_ids # {}
    /\ last.primary_id \notin last.other_ids
    /\ \A f \in last.other_ids \cup {last.primary_id} :
            get_images_with_face(last.before, f) # << >>
    /\ Len(get_images_with_face(last.before, last.primary_id)) = 1
    /\ Len(get_images_with_face(db, last.primary_id)) = 2

\* C6: get_images_with_faces([]) is empty, and get_images_with_faces([id])
\* returns the same set of paths as get_images_with_face(id).
C6_EmptyAndSingleton ==
    last.op = "get_images_with_faces"
        => /\ Len(last.arg) = 0 => last.ret = << >>
           /\ Len(last.arg) = 1
                => Range(last.ret) = Range(get_images_with_face(db, last.arg[1]))

\* C6 witness: a one-id query that returns an image holding the identity
\* twice.
C6_Witness ==
    /\ last.op = "get_images_with_faces"
    /\ Len(last.arg) = 1
    /\ Len(last.ret) = 1
    /\ \E r \in DOMAIN db.occurrences : r[2] = last.arg[1] /\ db.occurrences[r] = 2

\* C7 as stated: for a non-empty collection of ids, get_images_with_faces
\* returns exactly the paths that have an occurrence of every id of the
\* collection, each path once.
C7_AllOfCollection ==
    (last.op = "get_images_with_faces" /\ Len(last.arg) > 0)
        => /\ Range(last.ret)
                = {p \in Paths : \A i \in DOMAIN last.arg : HasOccurrence(db, p, last.arg[i])}
           /\ \A i, j \in DOMAIN last.ret : last.ret[i] = last.ret[j] => i = j

\* C8: a crash between the statements of insert_occurrence leaves the store
\* exactly as committed before the call, with no occurrence lacking its images
\* or faces row that was not committed so before; a completed call is
\* committed and adds no such occurrence either.
C8_CrashAtomic ==
    /\ (last.op = "crash" /\ last.during = "insert_occurrence")
            => /\ db = last.committed
               /\ Orphans(db) \subseteq Orphans(last.committed)
    /\ last.op = "insert_occurrence"
            => /\ disk = db
               /\ Orphans(db) \subseteq Orphans(last.before)

\* C8 witness: a crash right before the commit, the images, faces and
\* occurrences rows of the call written and lost, the committed store holding
\* occurrences and none without its parents.
C8_Witness ==
    /\ last.op = "crash"
    /\ last.during = "insert_occurrence"
    /\ last.k = 4
    /\ last.lost.occurrences # db.occurrences
    /\ Len(last.lost.images) > Len(db.images)
    /\ last.lost.faces # db.faces
    /\ db.occurrences # EmptyBag
    /\ Orphans(db) = {}

\* Identity f has at least one occurrence row in store s.
FaceOccurs(s, f) == \E r \in DOMAIN s.occurrences : r[2] = f

\* C15: a query for a key the store does not hold returns the empty list:
\* get_faces_in_image for a path without images row, get_images_with_face for
\* an id without occurrence, get_images_with_faces when one of the ids has no
\* occurrence; merge_faces with no other ids leaves the store, in memory and
\* committed, as it was.
C15_UnknownKeysGiveEmpty ==
    /\ (last.op = "get_faces_in_image" /\ last.arg \notin Range(db.images))
            => last.ret = << >>
    /\ (last.op = "get_images_with_face" /\ ~FaceOccurs(db, last.arg))
            => last.ret = << >>
    /\ (last.op = "get_images_with_faces"
            /\ \E i \in DOMAIN last.arg : ~FaceOccurs(db, last.arg[i]))
            => last.ret = << >>
    /\ (last.op = "merge_faces" /\ last.other_ids = {})
            => db = last.before /\ disk = last.before

\* C15 witness: get_images_with_faces asked for an identity that has an image
\* and one that has no occurrence in a store that holds its images, and
\* returning the empty list.
C15_Witness ==
    /\ last.op = "get_images_with_faces"
    /\ Len(last.arg) = 2
    /\ FaceOccurs(db, last.arg[1])
    /\ ~FaceOccurs(db, last.arg[2])
    /\ get_images_with_face(db, last.arg[1]) # << >>
    /\ last.ret = << >>

-----------------------------------------------------------------------------
(* controller.py: Controller                                               *)
(*                                                                         *)
(* scan_folder and merge_face_ids are called on the GUI thread (th.main);  *)
(* the callbacks given to Pool.apply_async run on the pool's result        *)
(* handler thread (th.cb), one at a time. Both threads run                 *)
(* _submit_next_images on the same image_queue and pending_tasks, with no  *)
(* lock: the steps below are the points where the interpreter can switch   *)
(* threads (a += or -= is a read and a later write). The Database methods  *)
(* hold self.lock for their whole body and are single steps. FaissIndex is *)
(* touched by the callback thread alone.                                   *)

max_pending == num_workers

\* What process_image can return for an image: up to two detections, their
\* embeddings on the diagonal of the grid.
Diagonal == {<<c, c>> : c \in 0..MaxCoord}
DetectionLists ==
    {<< >>} \cup {<<e>> : e \in Diagonal}
            \cup {q \in Diagonal \X Diagonal : q[1][1] < q[2][1]}

\* The lists os.walk can give: the paths of a folder, in a fixed order.
RECURSIVE Ascending(_)
Ascending(S) ==
    IF S = {} THEN << >>
    ELSE LET m == CHOOSE x \in S : \A y \in S : x <= y
         IN  <<m>> \o Ascending(S \ {m})

InFlight == SumCounts(pool, Paths)

Init ==
    /\ image_queue = << >>
    /\ pending_tasks = 0
    /\ pool = [p \in Paths |-> 0]
    /\ index = << >>
    /\ index_file = << >>
    /\ db = EmptyStore
    /\ disk = EmptyStore
    /\ image_to_faces = [p \in Paths |-> Unset]
    /\ th = [main |-> IdleThread, cb |-> IdleThread]
    /\ hist = NoHistory
    /\ scans = 0
    /\ files \in [Paths -> DetectionLists]
    /\ txn = NoCall
    /\ last = None
    /\ returned = {}

\* Mutant: every path of the folder is taken as new.
NewImages_unfiltered(all_image_paths, processed) == all_image_paths

\* new_images = [p for p in all_image_paths if p not in processed]
NewImages(all_image_paths, processed) ==
    SelectSeq(all_image_paths, LAMBDA p : p \notin processed)

\* scan_folder, lines 38-56: walk the folder, read the processed set from the
\* store, compute new_images, emit folder_scanned.
ScanFolder(all_image_paths) ==
    /\ th.main.pc = "idle"
    /\ scans < MaxScans
    /\ scans' = scans + 1
    /\ LET new_images == NewImages(all_image_paths, get_processed_images(db))
       IN  th' = [th EXCEPT !.main = [@ EXCEPT !.pc = "enqueue",
                                               !.all_image_paths = all_image_paths,
                                               !.new_images = new_images,
                                               !.stale = Range(new_images) \cap hist.applied]]
    /\ UNCHANGED << image_queue, pending_tasks, pool, index, index_file, db, disk,
                    image_to_faces, hist, files, txn, last, returned >>

\* scan_folder, line 59: self.image_queue = new_images; line 60 enters
\* _submit_next_images.
Enqueue ==
    /\ th.main.pc = "enqueue"
    /\ image_queue' = th.main.new_images
    /\ hist' = [hist EXCEPT !.stale = th.main.stale]
    /\ th' = [th EXCEPT !.main = [IdleThread EXCEPT !.pc = "submit"]]
    /\ UNCHANGED << pending_tasks, pool, index, index_file, db, disk,
                    image_to_faces, scans, files, txn, last, returned >>

\* _submit_next_images, line 66: the while condition; the method returns when
\* it fails.
SubmitCheck(self) ==
    /\ th[self].pc = "submit"
    /\ th' = [th EXCEPT ![self] =
                IF image_queue # << >> /\ pending_tasks < max_pending
                THEN [IdleThread EXCEPT !.pc = "pop"]
                ELSE IdleThread]
    /\ UNCHANGED << image_queue, pending_tasks, pool, index, index_file, db, disk,
                    image_to_faces, hist, scans, files, txn, last, returned >>

\* line 67: path = self.image_queue.pop(0); IndexError on an empty list ends
\* the thread's work.
Pop(self) ==
    /\ th[self].pc = "pop"
    /\ IF image_queue = << >>
       THEN /\ th' = [th EXCEPT ![self] = [IdleThread EXCEPT !.pc = "dead"]]
            /\ image_queue' = image_queue
       ELSE /\ th' = [th EXCEPT ![self] =
                        [@ EXCEPT !.pc = "inc_load", !.path = Head(image_queue),
                                  !.stale = {Head(image_queue)} \cap hist.stale,
                                  !.gen = IF th.main.pc = "enqueue" THEN scans - 1
                                                                    ELSE scans]]
            /\ image_queue' = Tail(image_queue)
    /\ UNCHANGED << pending_tasks, pool, index, index_file, db, disk,
                    image_to_faces, hist, scans, files, txn, last, returned >>

\* line 68, self.pending_tasks += 1: the read.
IncLoad(self) ==
    /\ th[self].pc = "inc_load"
    /\ th' = [th EXCEPT ![self] = [@ EXCEPT !.pc = "inc_store", !.tmp = pending_tasks]]
    /\ UNCHANGED << image_queue, pending_tasks, pool, index, index_file, db, disk,
                    image_to_faces, hist, scans, files, txn, last, returned >>

\* line 68, self.pending_tasks += 1: the write.
IncStore(self) ==
    /\ th[self].pc = "inc_store"
    /\ pending_tasks' = th[self].tmp + 1
    /\ th' = [th EXCEPT ![self] = [@ EXCEPT !.pc = "apply_async", !.tmp = 0]]
    /\ UNCHANGED << image_queue, pool, index, index_file, db, disk,
                    image_to_faces, hist, scans, files, txn, last, returned >>

\* lines 69-74: self.pool.apply_async(worker.process_image, args=(path,), ...),
\* then back to the while condition.
ApplyAsync(self) ==
    /\ th[self].pc = "apply_async"
    /\ pool' = [pool EXCEPT ![th[self].path] = @ + 1]
    /\ hist' = [hist EXCEPT !.redispatched = @ \cup th[self].stale]
    /\ th' = [th EXCEPT ![self] = [IdleThread EXCEPT !.pc = "submit"]]
    /\ UNCHANGED << image_queue, pending_tasks, index, index_file, db, disk,
                    image_to_faces, scans, files, txn, last, returned >>

\* A task of the pool ends; the result handler thread calls callback (kind
\* "result", _handle_image_result) or error_callback (kind "error",
\* _handle_worker_error).
Callback(p, kind) ==
    /\ th.cb.pc = "idle"
    /\ pool[p] > 0
    /\ pool' = [pool EXCEPT ![p] = @ - 1]
    /\ th' = [th EXCEPT !.cb = [IdleThread EXCEPT !.pc = "dec_load", !.kind = kind,
                                                  !.img = p, !.face = 1]]
    /\ UNCHANGED << image_queue, pending_tasks, index, index_file, db, disk,
                    image_to_faces, hist, scans, files, txn, last, returned >>

\* lines 81 and 89, self.pending_tasks -= 1: the read.
DecLoad ==
    /\ th.cb.pc = "dec_load"
    /\ th' = [th EXCEPT !.cb = [@ EXCEPT !.pc = "dec_store", !.tmp = pending_tasks]]
    /\ UNCHANGED << image_queue, pending_tasks, pool, index, index_file, db, disk,
                    image_to_faces, hist, scans, files, txn, last, returned >>

\* lines 81 and 89, self.pending_tasks -= 1: the write. _handle_worker_error
\* goes on to _submit_next_images, _handle_image_result to its loop.
DecStore ==
    /\ th.cb.pc = "dec_store"
    /\ pending_tasks' = th.cb.tmp - 1
    /\ th' = [th EXCEPT !.cb =
                IF @.kind = "result" THEN [@ EXCEPT !.pc = "faces", !.tmp = 0]
                                     ELSE [IdleThread EXCEPT !.pc = "submit"]]
    /\ UNCHANGED << image_queue, pool, index, index_file, db, disk,
                    image_to_faces, hist, scans, files, txn, last, returned >>

\* lines 94-97, one iteration: fid = self.idx.find_or_add(emb);
\* face_ids.append(fid); self.db.insert_occurrence(img_path, fid, box).
\* Mutant: the id find_or_add returns is replaced by the primary it was last
\* merged into before the occurrence is recorded.
Face_follows_merges ==
    /\ th.cb.pc = "faces"
    /\ th.cb.face <= Len(files[th.cb.img])
    /\ LET r == find_or_add(index, files[th.cb.img][th.cb.face])
           fid == IF \E m \in hist.merged : m[2] = r.id
                  THEN (CHOOSE m \in hist.merged : m[2] = r.id)[1]
                  ELSE r.id
       IN  /\ index' = r.index
           /\ db' = insert_occurrence(db, th.cb.img, fid)
           /\ disk' = db'
           /\ image_to_faces' =
                [image_to_faces EXCEPT ![th.cb.img] =
                    IF th.cb.face = 1 THEN <<fid>> ELSE Append(@, fid)]
    /\ th' = [th EXCEPT !.cb = [@ EXCEPT !.face = @ + 1]]
    /\ UNCHANGED << image_queue, pending_tasks, pool, index_file,
                    hist, scans, files, txn, last, returned >>

Face ==
    /\ th.cb.pc = "faces"
    /\ th.cb.face <= Len(files[th.cb.img])
    /\ LET r == find_or_add(index, files[th.cb.img][th.cb.face])
       IN  /\ index' = r.index
           /\ db' = insert_occurrence(db, th.cb.img, r.id)
           /\ disk' = db'
           /\ image_to_faces' =
                [image_to_faces EXCEPT ![th.cb.img] =
                    IF th.cb.face = 1 THEN <<r.id>> ELSE Append(@, r.id)]
    /\ th' = [th EXCEPT !.cb = [@ EXCEPT !.face = @ + 1]]
    /\ UNCHANGED << image_queue, pending_tasks, pool, index_file,
                    hist, scans, files, txn, last, returned >>

\* Mutant: idx.save() called outside the try, its exception ending the
\* callback and the thread that runs it.
Save_uncaught(ok) ==
    /\ th.cb.pc = "faces"
    /\ th.cb.face > Len(files[th.cb.img])
    /\ image_to_faces' = [image_to_faces EXCEPT ![th.cb.img] =
                            IF Len(files[th.cb.img]) = 0 THEN << >> ELSE @]
    /\ index_file' = IF ok THEN index ELSE index_file
    /\ hist' = [hist EXCEPT !.applied = @ \cup {th.cb.img}]
    /\ th' = [th EXCEPT !.cb = [IdleThread EXCEPT !.pc = IF ok THEN "submit" ELSE "dead"]]
    /\ UNCHANGED << image_queue, pending_tasks, pool, index, db, disk,
                    scans, files, txn, last, returned >>

\* lines 99-108 once the loop is over: self.image_to_faces[img_path] =
\* face_ids; self.idx.save(), whose exception is caught and logged; then
\* _submit_next_images.
Save(ok) ==
    /\ th.cb.pc = "faces"
    /\ th.cb.face > Len(files[th.cb.img])
    /\ image_to_faces' = [image_to_faces EXCEPT ![th.cb.img] =
                            IF Len(files[th.cb.img]) = 0 THEN << >> ELSE @]
    /\ index_file' = IF ok THEN index ELSE index_file
    /\ hist' = [hist EXCEPT !.applied = @ \cup {th.cb.img}]
    /\ th' = [th EXCEPT !.cb = [IdleThread EXCEPT !.pc = "submit"]]
    /\ UNCHANGED << image_queue, pending_tasks, pool, index, db, disk,
                    scans, files, txn, last, returned >>

\* idx without the rows whose ordinals are in ids, from position i on.
RECURSIVE RemoveRows(_, _, _)
RemoveRows(idx, ids, i) ==
    IF i > Len(idx) THEN << >>
    ELSE (IF i - 1 \in ids THEN << >> ELSE <<idx[i]>>) \o RemoveRows(idx, ids, i + 1)

\* Mutant: the merge also drops the vectors of the merged-away ids from the
\* index.
MergeFaceIds_rebuilds_index(primary_id, other_ids) ==
    /\ th.main.pc = "idle"
    /\ primary_id \in db.faces
    /\ other_ids # {}
    /\ other_ids \subseteq db.faces \ {primary_id}
    /\ db' = merge_faces(db, primary_id, other_ids)
    /\ disk' = db'
    /\ index' = RemoveRows(index, other_ids, 1)
    /\ hist' = [hist EXCEPT !.merged = @ \cup {<<primary_id, b>> : b \in other_ids}]
    /\ UNCHANGED << image_queue, pending_tasks, pool, index_file,
                    image_to_faces, th, scans, files, txn, last, returned >>

\* merge_face_ids from the merge dialog: the ids are rows of the faces table,
\* other_ids the selected ones but the primary; db.merge_faces under the lock.
MergeFaceIds(primary_id, other_ids) ==
    /\ th.main.pc = "idle"
    /\ primary_id \in db.faces
    /\ other_ids # {}
    /\ other_ids \subseteq db.faces \ {primary_id}
    /\ db' = merge_faces(db, primary_id, other_ids)
    /\ disk' = db'
    /\ hist' = [hist EXCEPT !.merged = @ \cup {<<primary_id, b>> : b \in other_ids}]
    /\ UNCHANGED << image_queue, pending_tasks, pool, index, index_file,
                    image_to_faces, th, scans, files, txn, last, returned >>

Next ==
    \/ \E S \in SUBSET Paths : ScanFolder(Ascending(S))
    \/ Enqueue
    \/ \E self \in {"main", "cb"} :
            SubmitCheck(self) \/ Pop(self) \/ IncLoad(self) \/ IncStore(self)
                \/ ApplyAsync(self)
    \/ \E p \in Paths, kind \in {"result", "error"} : Callback(p, kind)
    \/ DecLoad
    \/ DecStore
    \/ Face
    \/ \E ok \in BOOLEAN : Save(ok)
    \/ \E primary_id \in 0..MaxVectors, other_ids \in SUBSET (0..MaxVectors) :
            MergeFaceIds(primary_id, other_ids)

Spec == Init /\ [][Next]_vars

\* Occurrence rows of path p in store s.
RowsOf(s, p) ==
    SumCounts(s.occurrences, {r \in DOMAIN s.occurrences : r[1] = ImageId(s, p)})

\* C1 as stated: the number of dispatched tasks whose callback has not run,
\* and the pending_tasks counter, never exceed max_pending.
C1_InFlightBounded ==
    /\ InFlight <= max_pending
    /\ pending_tasks <= max_pending

\* C2 as stated: after one scan, once every dispatched task has had its
\* callback and both threads are back outside the controller, the queue is
\* empty and the in-flight counter is 0 (a path leaves the queue only by the
\* pop that precedes its dispatch, so an empty queue means every enqueued path
\* was dispatched).
C2_Quiescence ==
    (/\ scans = 1
     /\ th.main.pc = "idle"
     /\ th.cb.pc = "idle"
     /\ InFlight = 0)
        => /\ image_queue = << >>
           /\ pending_tasks = 0

\* C9 as stated: a path whose occurrences an earlier scan's result recorded is
\* not in the new set of a later scan, and no path ever has more occurrence
\* rows than one ingestion of it detects faces.
C9_NoDuplicateOccurrences ==
    /\ \A p \in th.main.stale \cup hist.stale : Len(files[p]) = 0
    /\ \A p \in Paths : RowsOf(db, p) <= Len(files[p])

SharedSteps ==
    {"enqueue", "submit", "pop", "inc_load", "inc_store", "apply_async",
     "dec_load", "dec_store"}

\* Nothing is left to run: the GUI thread is outside the controller (or ended
\* by an exception) and the callback thread has no callback to run, or has
\* ended and will run none.
AtRest ==
    /\ th.main.pc \in {"idle", "dead"}
    /\ \/ th.cb.pc = "dead"
       \/ th.cb.pc = "idle" /\ InFlight = 0

\* C12 as stated, for a task that ended in a result without detections: after
\* the only scan, when nothing is left to run, every other path has been
\* dispatched and has had its callback (the queue is empty and no dispatched
\* task is still waiting for its callback).
C12_FailureIsolated ==
    (/\ scans = 1
     /\ \E p \in hist.applied : Len(files[p]) = 0
     /\ AtRest)
        => /\ image_queue = << >>
           /\ InFlight = 0

\* C18 as stated: the two threads are never both at a step of the queue and
\* counter code, pop is never called on an empty queue, and with both threads
\* outside the controller pending_tasks is the number of dispatched tasks
\* whose callback has not run.
C18_SingleWriter ==
    /\ ~(th.main.pc \in SharedSteps /\ th.cb.pc \in SharedSteps)
    /\ th.main.pc # "dead" /\ th.cb.pc # "dead"
    /\ (th.main.pc = "idle" /\ th.cb.pc = "idle") => pending_tasks = InFlight

\* C20 as stated: while the first result of an image has detections left to
\* resolve, the committed store holds no occurrence row of the image.
C20_NoPartialVisibility ==
    (/\ th.cb.pc = "faces"
     /\ th.cb.img \notin hist.applied
     /\ th.cb.face <= Len(files[th.cb.img]))
        => RowsOf(disk, th.cb.img) = 0

\* The identity ids store s holds, in the faces table or on an occurrence.
StoreIds(s) == s.faces \cup {r[2] : r \in DOMAIN s.occurrences}

\* C14: a step in which idx.save() raises leaves the in-memory index and the
\* store, in memory and committed, as they were and goes on to
\* _submit_next_images; and whatever the saves did, every identity id of the
\* store is a row of the in-memory index, which later results are resolved
\* against.
C14_SaveFailureNonFatal ==
    /\ [][Save(FALSE) => /\ index' = index
                         /\ db' = db
                         /\ disk' = disk
                         /\ th'.cb.pc = "submit"]_vars
    /\ [](\A f \in StoreIds(db) : f < Len(index))

\* C14 witness: every save so far has failed (nothing is on file), and the
\* second image was resolved to the identity minted for the first, whose
\* vector is in memory only.
C14_Witness ==
    /\ index_file = << >>
    /\ Len(index) = 1
    /\ hist.applied = Paths
    /\ \A p \in Paths : image_to_faces[p] = <<0>>
    /\ \A p \in Paths : RowsOf(disk, p) >= 1

\* C16: a merge_face_ids step leaves the index in memory and on file, the
\* queue, the in-flight counter and the dispatched tasks as they were.
C16_MergeLeavesIndex ==
    [][(\E primary_id \in 0..MaxVectors, other_ids \in SUBSET (0..MaxVectors) :
            MergeFaceIds(primary_id, other_ids))
        => UNCHANGED << index, index_file, image_queue, pending_tasks, pool >>]_vars

\* C16 witness: identity 0 was merged into identity 1 while a task was in
\* flight: the store knows identity 1 alone, the index still has both rows.
C16_Witness ==
    /\ Len(index) = 2
    /\ db.faces = {1}
    /\ \A r \in DOMAIN db.occurrences : r[2] = 1
    /\ db.occurrences # EmptyBag
    /\ InFlight > 0
    /\ pending_tasks > 0

\* Thread self holds a path it has popped and not yet dispatched.
Holding(self) == th[self].pc \in {"inc_load", "inc_store", "apply_async"}

\* Thread self holds a path that the scan enqueued after a path of the same
\* queue that the other thread still holds (a scan enqueues by ascending path).
Overtakes(self) ==
    \E o \in {"main", "cb"} \ {self} :
        /\ Holding(o)
        /\ th[o].gen = th[self].gen
        /\ th[o].path < th[self].path

\* C19 as stated: a popped path is no longer in the queue, a callback (result
\* or error) puts nothing back in the queue, and no path is dispatched while a
\* path the same scan enqueued before it is still waiting to be dispatched.
C19_OncePerScanFifo ==
    [][/\ \A self \in {"main", "cb"} :
            /\ (Pop(self) /\ th'[self].pc = "inc_load")
                    => th'[self].path \notin Range(image_queue')
            /\ ApplyAsync(self) => ~Overtakes(self)
       /\ (DecLoad \/ DecStore) => image_queue' = image_queue]_vars

-----------------------------------------------------------------------------
(* SpecFaults: the controller of Spec where, in addition, insert_occurrence *)
(* can raise at any of its statements, and the process can die at any      *)
(* point and be started again on the files it left.                        *)

\* A faces.index cut short by a crash inside faiss.write_index, which writes
\* to the path itself: a file read_index cannot parse.
Torn == << <<-1, -1>> >>

\* FaissIndex.__init__: read_index(path), and a new empty IndexFlatL2 when it
\* raises (file absent, here the empty list, or unreadable).
FaissIndex_init(file) == IF file = Torn THEN << >> ELSE file

\* The store after the statements of insert_occurrence that precede step k.
InsertedBefore(k, s, path, fid) ==
    CASE k = 1 -> s
      [] k = 2 -> InsertStmt(1, s, path, fid)
      [] k = 3 -> InsertStmt(2, InsertStmt(1, s, path, fid), path, fid)
      [] k = 4 -> insert_occurrence(s, path, fid)

\* lines 95-97 with insert_occurrence raising at step k (a statement, or the
\* commit): find_or_add has run, the statements before k are left uncommitted
\* on the connection, and the exception leaves _handle_image_result and ends
\* the result-handler thread that called it.
FaceFails(k) ==
    /\ th.cb.pc = "faces"
    /\ th.cb.face <= Len(files[th.cb.img])
    /\ LET r == find_or_add(index, files[th.cb.img][th.cb.face])
       IN  /\ index' = r.index
           /\ db' = InsertedBefore(k, db, th.cb.img, r.id)
    /\ th' = [th EXCEPT !.cb = [IdleThread EXCEPT !.pc = "dead"]]
    /\ last' = [op |-> "insert_occurrence_raised", path |-> th.cb.img, k |-> k,
                before |-> db]
    /\ UNCHANGED << image_queue, pending_tasks, pool, index_file, disk,
                    image_to_faces, hist, scans, files, txn, returned >>

\* The callback thread is inside idx.save().
InSave == th.cb.pc = "faces" /\ th.cb.face > Len(files[th.cb.img])

\* The process dies and main.py is run again: Controller.__init__ opens
\* faces.db (what was committed) and faces.index, with an empty queue, no task
\* and a new pool. A death inside idx.save() can leave the file torn.
Restart(torn) ==
    /\ hist.restarts < MaxRestarts
    /\ torn => InSave
    /\ index_file' = IF torn THEN Torn ELSE index_file
    /\ index' = FaissIndex_init(index_file')
    /\ db' = disk
    /\ image_queue' = << >>
    /\ pending_tasks' = 0
    /\ pool' = [p \in Paths |-> 0]
    /\ image_to_faces' = [p \in Paths |-> Unset]
    /\ th' = [main |-> IdleThread, cb |-> IdleThread]
    /\ hist' = [hist EXCEPT !.restarts = @ + 1]
    /\ last' = [op |-> "restart", in_save |-> InSave, saved |-> index_file,
                memory |-> index, loaded |-> index']
    /\ UNCHANGED << disk, scans, files, txn, returned >>

\* The controller as constructed, on a folder whose images show at most one
\* face each.
InitFaults == Init /\ \A p \in Paths : Len(files[p]) <= 1

NextFaults ==
    \/ Next
    \/ \E k \in 1..4 : FaceFails(k)
    \/ \E torn \in BOOLEAN : Restart(torn)

SpecFaults == InitFaults /\ [][NextFaults]_vars

\* C11 as stated: every identity id of the store is the ordinal of a row of
\* the index (so that the next id find_or_add mints, the row count, is an id
\* the store does not use).
C11_IndexCoversStore == \A f \in StoreIds(db) : f < Len(index)

\* C13 as stated: once insert_occurrence has raised inside a result callback
\* and the GUI thread is outside the controller, no path is left in the queue.
C13_StoreFailureStillDrains ==
    (last.op = "insert_occurrence_raised" /\ th.main.pc = "idle")
        => image_queue = << >>

\* C17 as stated: after a process death inside idx.save(), the index loaded
\* at the next start is the index that was on file before the save or the
\* index that was being saved.
C17_TornSaveTolerated ==
    (last.op = "restart" /\ last.in_save)
        => last.loaded \in {last.saved, last.memory}

\* C21 as stated: the assignment of scan_folder replaces the queue by the new
\* scan's new paths and touches neither the counter nor the tasks in flight;
\* and once a second scan has been made and nothing is left to run, every
\* dispatched task, of the earlier scan and of the latest, has had its callback
\* and has been counted down once (the counter is back to 0).
C21_FreshScanKeepsAccounting ==
    /\ [][Enqueue => /\ image_queue' = th.main.new_images
                     /\ UNCHANGED << pending_tasks, pool >>]_vars
    /\ []((scans >= 2 /\ AtRest) => (InFlight = 0 /\ pending_tasks = 0))

-----------------------------------------------------------------------------
(* insert_occurrence and its parents (SpecStore)                           *)

\* The number of images rows of store s whose path is p.
ImageRows(s, p) == Cardinality({i \in 1..Len(s.images) : s.images[i] = p})

\* C22: after insert_occurrence(path, fid) returns, the path has exactly one
\* images row (the rows that were there are kept as they were), fid has its
\* faces row (the other faces rows are kept), and there is exactly one
\* occurrence row more than before, the row (image id of path, fid).
C22_CreateIfAbsent ==
    last.op = "insert_occurrence"
        => /\ ImageRows(db, last.path) = 1
           /\ SubSeq(db.images, 1, Len(last.before.images)) = last.before.images
           /\ Len(db.images) = Len(last.before.images)
                    + (IF last.path \in Range(last.before.images) THEN 0 ELSE 1)
           /\ db.faces = last.before.faces \cup {last.fid}
           /\ BagCardinality(db.occurrences)
                    = BagCardinality(last.before.occurrences) + 1
           /\ db.occurrences = last.before.occurrences
                    (+) SetToBag({<<ImageId(db, last.path), last.fid>>})

\* C22 witness: an insert for a path that has its images row and for an
\* identity whose faces row an earlier merge deleted (occurrences but no faces
\* row before the call).
C22_Witness ==
    /\ last.op = "insert_occurrence"
    /\ last.path \in Range(last.before.images)
    /\ last.before.faces = {}
    /\ last.before.occurrences # EmptyBag
    /\ last.fid \in db.faces

\* C23 as stated: after insert_occurrence has raised at step k, the store the
\* queries read (db) and the store made durable by the commits that follow
\* (disk) hold no images row and no faces row beyond those present before the
\* failed call.
C23_PartialFailureInvisible ==
    last.op = "insert_occurrence_raised"
        => /\ Range(db.images) \subseteq Range(last.before.images)
           /\ db.faces \subseteq last.before.faces
           /\ Range(disk.images) \subseteq Range(last.before.images)
           /\ disk.faces \subseteq last.before.faces

\* The result the query recorded in q gives on store s.
QueryResult(s, q) ==
    CASE q.op = "get_faces_in_image" -> get_faces_in_image(s, q.arg)
      [] q.op = "get_images_with_face" -> get_images_with_face(s, q.arg)
      [] q.op = "get_images_with_faces" -> get_images_with_faces(s, q.arg)

-----------------------------------------------------------------------------
(* SpecWorker: process_image in a worker process of the pool, step by      *)
(* step, with an exception possible at every step of its try block.        *)
(*   txn   the call in progress: its path and the (embedding, box) pairs   *)
(*         appended so far                                                 *)
(*   pool  the tasks dispatched and not yet answered, per path             *)
(*   last  what the pool handed back for the last finished call: kind      *)
(*         "result" (callback) or "error" (error_callback)                 *)

\* Image-level failures: what Image.open, exif_transpose, np.array,
\* face_locations, crop and face_encodings raise. All are subclasses of
\* Exception.
Exceptions == {"UnidentifiedImageError", "OSError", "RuntimeError"}

\* Mutant: no except clause, the exception leaves process_image and the pool
\* reports it through error_callback.
OnException_propagates(path, exc) == [kind |-> "error", value |-> exc]

\* lines 28-30: except Exception: log, return {"image": path, "embeddings": []}
OnException(path, exc) ==
    [kind |-> "result", value |-> [image |-> path, embeddings |-> << >>]]

\* line 27: return {"image": path, "embeddings": embs_and_boxes}
OnReturn(path, embs_and_boxes) ==
    [kind |-> "result", value |-> [image |-> path, embeddings |-> embs_and_boxes]]

InitWorker == Init

\* pool.apply_async(process_image, (path,)): one more task of the path.
WorkerDispatch(path) ==
    /\ InFlight < num_workers
    /\ pool' = [pool EXCEPT ![path] = @ + 1]
    /\ UNCHANGED << image_queue, pending_tasks, index, index_file, db, disk,
                    image_to_faces, th, hist, scans, files, txn, last, returned >>

\* A worker process takes a task: process_image(path) is entered.
WorkerBegin(path) ==
    /\ txn.pc = "idle"
    /\ pool[path] > 0
    /\ txn' = [pc |-> "open", path |-> path, embs_and_boxes |-> << >>]
    /\ UNCHANGED << image_queue, pending_tasks, pool, index, index_file, db, disk,
                    image_to_faces, th, hist, scans, files, last, returned >>

\* lines 15-17 (open, transpose, array), then line 19 (detect_faces), then one
\* pass of the loop of lines 21-25 per box.
WorkerStep ==
    /\ CASE txn.pc = "open" -> txn' = [txn EXCEPT !.pc = "detect"]
         [] txn.pc = "detect" -> txn' = [txn EXCEPT !.pc = "embed"]
         [] txn.pc = "embed" ->
                /\ Len(txn.embs_and_boxes) < Len(files[txn.path])
                /\ txn' = [txn EXCEPT !.embs_and_boxes =
                              Append(@, files[txn.path][Len(@) + 1])]
         [] OTHER -> FALSE
    /\ UNCHANGED << image_queue, pending_tasks, pool, index, index_file, db, disk,
                    image_to_faces, th, hist, scans, files, last, returned >>

\* The call is over: the pool hands r to the controller and the task is no
\* longer in flight.
WorkerAnswer(r, raised) ==
    /\ pool' = [pool EXCEPT ![txn.path] = @ - 1]
    /\ last' = [op |-> "process_image", path |-> txn.path, kind |-> r.kind,
                value |-> r.value, raised |-> raised,
                appended |-> txn.embs_and_boxes]
    /\ txn' = NoCall
    /\ UNCHANGED << image_queue, pending_tasks, index, index_file, db, disk,
                    image_to_faces, th, hist, scans, files, returned >>

\* line 27 reached: every box has its embedding.
WorkerReturn ==
    /\ txn.pc = "embed"
    /\ Len(txn.embs_and_boxes) = Len(files[txn.path])
    /\ WorkerAnswer(OnReturn(txn.path, txn.embs_and_boxes), FALSE)

\* A statement of the try block raises exc.
WorkerRaise(exc) ==
    /\ \/ txn.pc \in {"open", "detect"}
       \/ txn.pc = "embed" /\ Len(txn.embs_and_boxes) < Len(files[txn.path])
    /\ WorkerAnswer(OnException(txn.path, exc), TRUE)

NextWorker ==
    \/ \E path \in Paths : WorkerDispatch(path)
    \/ \E path \in Paths : WorkerBegin(path)
    \/ WorkerStep
    \/ WorkerReturn
    \/ \E exc \in Exceptions : WorkerRaise(exc)

SpecWorker == InitWorker /\ [][NextWorker]_vars

\* C25: every call of process_image ends by handing back a result (never an
\* error) that carries the path of the call, with the pairs of all the faces
\* of the image when nothing failed and the empty list when a step raised;
\* and the end of a call answers exactly one task of that path.
C25_WorkerNeverRaises ==
    /\ [](last.op = "process_image"
            => /\ last.kind = "result"
               /\ last.value.image = last.path
               /\ last.value.embeddings =
                    (IF last.raised THEN << >> ELSE files[last.path]))
    /\ [][(txn.pc # "idle" /\ txn'.pc = "idle")
            => /\ last'.op = "process_image"
               /\ last'.path = txn.path
               /\ pool' = [pool EXCEPT ![txn.path] = @ - 1]]_vars

\* C25 witness: the second face of an image fails after the pair of the first
\* was appended, and the result handed back is the empty list.
C25_Witness ==
    /\ last.op = "process_image"
    /\ last.raised
    /\ Len(last.appended) = 1
    /\ last.kind = "result"
    /\ last.value.embeddings = << >>

-----------------------------------------------------------------------------
(* The index under ingestion, saves and merges (Spec)                      *)

\* C26: no step of the controller removes or moves a row of the index: the
\* index before a step is a prefix of the index after it. The find_or_add of
\* a face within the threshold of a stored vector leaves the index as it is,
\* the find_or_add of any other face appends exactly that one vector, and
\* every other step (a save, a merge, the scheduling) leaves the index alone.
C26_IdsStable ==
    [][/\ Len(index') >= Len(index)
       /\ SubSeq(index', 1, Len(index)) = index
       /\ Face => LET emb == files[th.cb.img][th.cb.face]
                  IN  index' = IF FarFromAll(index, emb)
                               THEN Append(index, emb) ELSE index
       /\ ~Face => index' = index]_vars

\* C26 witness: two vectors in the index, saved to the file, after a face
\* matched one of them (three occurrences) and after the two identities were
\* merged into one.
C26_Witness ==
    /\ Len(index) = 2
    /\ index_file = index
    /\ Cardinality(db.faces) = 1
    /\ BagCardinality(db.occurrences) >= 3
    /\ StoreIds(db) \subseteq db.faces

\* The face being ingested lies within the threshold of the vector stored
\* under id B.
NearVector(B, emb) == B < Len(index) /\ Dist(index[B + 1], emb) < Threshold

\* C27 as stated: after merge(A, [B]), the ingestion of a face within the
\* threshold of B's vector records one occurrence of the image under B,
\* B has its faces row again, get_images_with_face(B) is not empty and
\* get_images_with_face(A) does not return the image.
C27_StaleIndexResolvesToMerged ==
    [][\A m \in hist.merged :
        (Face /\ NearVector(m[2], files[th.cb.img][th.cb.face]))
            => /\ db'.occurrences = db.occurrences
                        (+) SetToBag({<<ImageId(db', th.cb.img), m[2]>>})
               /\ m[2] \in db'.faces
               /\ get_images_with_face(db', m[2]) # << >>
               /\ th.cb.img \notin Range(get_images_with_face(db', m[1]))]_vars

\* C27 amended: the same when B's vector is the stored vector strictly nearest
\* to the face, and with the last clause about the new occurrence alone: it
\* is recorded under B, so the images of A (and of every other identity) are
\* what they were.
C27_StaleIndexResolvesToNearestMerged ==
    [][\A m \in hist.merged :
        (Face /\ StrictNearest(index, m[2], files[th.cb.img][th.cb.face]))
            => /\ db'.occurrences = db.occurrences
                        (+) SetToBag({<<ImageId(db', th.cb.img), m[2]>>})
               /\ m[2] \in db'.faces
               /\ index' = index
               /\ th.cb.img \in Range(get_images_with_face(db', m[2]))
               /\ \A a \in StoreIds(db') \ {m[2]} :
                    get_images_with_face(db', a) = get_images_with_face(db, a)]_vars

\* C27 witness: B was merged into A, and B has its faces row and an image
\* again while A still has images of its own.
C27_Witness ==
    \E m \in hist.merged :
        /\ m[2] \in db.faces
        /\ get_images_with_face(db, m[2]) # << >>
        /\ get_images_with_face(db, m[1]) # << >>
        /\ m[1] \notin {n[2] : n \in hist.merged}

-----------------------------------------------------------------------------
(* request_images_with_all_faces (SpecStore)                               *)

\* C28 as stated: for a path with at least one occurrence, the list emitted by
\* request_images_with_all_faces(path) contains the path, and its paths are
\* exactly the images that hold an occurrence of every identity that occurs
\* in the path.
C28_AllFacesOfImage ==
    (last.op = "request_images_with_all_faces" /\ RowsOf(db, last.arg) > 0)
        => /\ last.arg \in Range(last.ret)
           /\ Range(last.ret) =
                {p \in Paths : \A f \in FaceIds :
                    HasOccurrence(db, last.arg, f) => HasOccurrence(db, p, f)}

\* C29 as stated: whatever insert_occurrence and merge_faces calls were made,
\* with whatever arguments, and wherever a call in progress stands, every
\* occurrence row of the store names an images row and a faces row; the same
\* for the committed store.
C29_ReferentialIntegrity ==
    /\ txn.pc = "idle" => Orphans(db) = {}
    /\ Orphans(disk) = {}

-----------------------------------------------------------------------------
(* find_or_add called twice (SpecIndex)                                    *)

\* C30: when find_or_add(e) directly follows find_or_add(e), the second call
\* returns the id the first returned and leaves the index as the first left
\* it.
C30_FindOrAddIdempotent ==
    (last.op = "find_or_add" /\ last.same_prev)
        => /\ last.ret = last.prev_ret
           /\ index = last.before

\* C30 witness: the repeated embedding is one the first call stored as the
\* second row of the index, far from the first row.
C30_Witness ==
    /\ last.op = "find_or_add"
    /\ last.same_prev
    /\ Len(index) = 2
    /\ last.ret = 1
    /\ index[2] = last.emb

====
